---- MODULE Spec2Model ----
(***************************************************************************)
(* Model of the CKD training pipeline controller (ckd_project/main.py):    *)
(* the two-tier checkpoint/resume protocol of main(), the phases it runs,  *)
(* and the files it leaves on disk across runs, process kills and I/O      *)
(* errors; and of GreyWolfOptimizer.optimize() (src/gwo_optimizer.py):     *)
(* the pack, the alpha/beta/delta hierarchy, the position updates and the  *)
(* convergence curve over successive optimize() calls, with the objective  *)
(* adapter of optimize_svr_with_gwo; and of the register and login         *)
(* handlers of the backend's authentication API (backend/app).             *)
(*                                                                         *)
(* Values are abstracted by provenance: a value computed in run r is r,    *)
(* a value that was on disk before the first run is 0 (full checkpoint)    *)
(* or OLDGWO (GWO checkpoint).                                             *)
(***************************************************************************)
EXTENDS Integers, Sequences, FiniteSets, TLC

\* ---------------------------------------------------------------- bounds
MaxRuns == 3

\* ------------------------------------------------------- program constants
n_wolves == 20
max_iter == 15

\* Python's None (result of dict.get on a missing key) and an unbound local
NONE == -2
UNB == -1

\* the classifiers of get_model_configs()
Models == {"SVM", "Decision Tree", "Random Forest", "XGBoost"}

\* ------------------------------------------------------------ field names
\* keys of the dict dumped to last_run_results.joblib
FullFields ==
    {"data", "reg_results", "class_results", "y_test_egfr", "y_test_stage",
     "X_test_cls", "feat_cls", "gwo_curve", "best_params", "best_score",
     "timestamp", "scaler_reg", "scaler_cls"}

\* keys of the dict dumped to gwo_results.joblib
GwoFields ==
    {"data", "reg_results", "X_train_reg", "X_test_reg", "y_test_egfr",
     "X_train_cls", "X_test_cls", "y_train_stage", "y_test_stage",
     "scaler_cls", "scaler_reg", "feat_cls", "best_params", "best_score",
     "gwo_curve", "svr_gwo"}

\* local variables of main() that hold pipeline values
VarNames == FullFields \cup GwoFields \cup {"y_train_egfr"}

\* the full-resume reads without `timestamp = cp['timestamp']`
FullOrderNoTimestamp ==
    <<"data", "reg_results", "class_results", "y_test_egfr", "y_test_stage",
      "X_test_cls", "feat_cls", "gwo_curve", "best_params", "best_score",
      "svr_gwo", "scaler_reg", "scaler_cls">>

\* order in which the full-resume branch reads the checkpoint
FullOrder ==
    <<"data", "reg_results", "class_results", "y_test_egfr", "y_test_stage",
      "X_test_cls", "feat_cls", "gwo_curve", "best_params", "best_score",
      "timestamp", "svr_gwo", "scaler_reg", "scaler_cls">>

\* the GWO-resume reads without `best_params = cp['best_params']`
GwoOrderNoBestParams ==
    <<"data", "reg_results", "X_train_reg", "X_test_reg", "y_test_egfr",
      "X_train_cls", "X_test_cls", "y_train_stage", "y_test_stage",
      "scaler_cls", "scaler_reg", "feat_cls", "best_score", "gwo_curve",
      "svr_gwo">>

\* order in which the GWO-resume branch reads the checkpoint
GwoOrder ==
    <<"data", "reg_results", "X_train_reg", "X_test_reg", "y_test_egfr",
      "X_train_cls", "X_test_cls", "y_train_stage", "y_test_stage",
      "scaler_cls", "scaler_reg", "feat_cls", "best_params", "best_score",
      "gwo_curve", "svr_gwo">>

\* fields read with cp.get(...) (None when missing) instead of cp[...]
FullOptional == {"scaler_reg", "scaler_cls"}
GwoOptional == {"scaler_reg"}

\* ------------------------------------------------------------------ state
VARIABLES
    run,        \* number of main() invocations started so far
    pc,         \* position of the current invocation inside main()
    loc,        \* locals of main(): VarNames -> value (UNB when unbound)
    locModels,  \* keys of the local class_results dict
    resumed,    \* main.py local `resumed`
    gwo_resumed,\* main.py local `gwo_resumed`
    fullFile,   \* contents of last_run_results.joblib
    gwoFile,    \* contents of gwo_results.joblib
    artifacts,  \* exported model files and gwo_best_params.json
    trace,      \* phases executed by the current invocation, in order
    objCalls,   \* objective-function evaluations in the current invocation
    raised,     \* phase whose exception was raised in this invocation
    returned,   \* value returned by main() (<<reg_results, class_results>>)
    fullDone,   \* some invocation finished writing the full checkpoint
    gwoDone,    \* some invocation finished writing the GWO checkpoint
    start       \* the disk and the history flags as the invocation found them

\* state of one GreyWolfOptimizer user (gwo_optimizer.py)
VARIABLES
    gpc,        \* position inside the optimizer: none, ready, eval, update,
                \* append, returned, raised
    objective,  \* self.objective_function (name of the function)
    dim,        \* self.dim
    lb,         \* self.lb
    ub,         \* self.ub
    convergence_curve, \* self.convergence_curve
    positions,  \* local `positions` of optimize()
    alpha_pos, alpha_score, beta_pos, beta_score, delta_pos, delta_score,
    it,         \* loop variable t of optimize()
    wi,         \* loop variable i (wolf)
    dj,         \* loop variable j (dimension)
    rng,        \* state of the global numpy random generator
    seed,       \* generator state when the current optimize() call began
    evals,      \* objective evaluations of the current optimize() call
    calls,      \* optimize() calls made so far
    curveBase,  \* length of convergence_curve when the current call began
    first,      \* what the first optimize() call returned and exposed
    a,          \* local `a` of optimize(), in units of 1 / max_iter
    minSeen,    \* smallest objective value returned in the current call
    argSeen     \* the positions at which minSeen was returned

\* one evaluation pass over a given list of fitness values (lines 84-102)
VARIABLES
    fitnesses   \* the value the objective returns for wolf 0, 1, ...

\* state of the authentication API (backend/app)
VARIABLES
    users,      \* table `users`: email -> row, or NoUser
    roles,      \* table `roles`: the role names
    request,    \* the request being answered
    response    \* the response to it

mvars == <<run, pc, loc, locModels, resumed, gwo_resumed, fullFile, gwoFile,
           artifacts, trace, objCalls, raised, returned, fullDone, gwoDone,
           start>>

gvars == <<gpc, objective, dim, lb, ub, convergence_curve, positions,
           alpha_pos, alpha_score, beta_pos, beta_score, delta_pos,
           delta_score, it, wi, dj, rng, seed, evals, calls, curveBase,
           first, a, minSeen, argSeen>>

ovars == <<fitnesses, users, roles, request, response>>

vars == <<mvars, gvars, ovars>>

\* ------------------------------------------------------------------ files
NoVals == [n \in VarNames |-> UNB]

Absent == [st |-> "absent", has |-> {}, val |-> NoVals, models |-> {}]
Partial == [st |-> "partial", has |-> {}, val |-> NoVals, models |-> {}]

\* a deserializable mapping holding the fields `has`
Mapping(has, val, models) ==
    [st |-> "complete", has |-> has,
     val |-> [n \in VarNames |-> IF n \in has THEN val[n] ELSE UNB],
     models |-> IF "class_results" \in has THEN models ELSE {}]

NoArtifacts ==
    [xgb |-> UNB, svr |-> UNB, scaler_reg |-> UNB, scaler_cls |-> UNB,
     gwo_info |-> UNB]


\* --------------------------------------------------------------- helpers
\* every local in `names` is bound (a read of an unbound local is a NameError)
Bound(names) == \A n \in names : loc[n] # UNB

Assign(l, names, v) == [n \in VarNames |-> IF n \in names THEN v ELSE l[n]]

\* the sequential field reads of a resume branch, from position i on:
\* cp[name] raises KeyError on a missing key and leaves the locals read so
\* far assigned; cp.get(name) yields None; in the full branch svr_gwo is
\* taken out of the reg_results just read.
RECURSIVE LoadFields(_, _, _, _, _, _)
LoadFields(i, order, optional, tier, cp, l) ==
    IF i > Len(order) THEN [loc |-> l, ok |-> TRUE]
    ELSE LET n == order[i] IN
         IF tier = "full" /\ n = "svr_gwo"
         THEN LoadFields(i + 1, order, optional, tier, cp,
                         [l EXCEPT ![n] = l["reg_results"]])
         ELSE IF n \in cp.has
         THEN LoadFields(i + 1, order, optional, tier, cp,
                         [l EXCEPT ![n] = cp.val[n]])
         ELSE IF n \in optional
         THEN LoadFields(i + 1, order, optional, tier, cp,
                         [l EXCEPT ![n] = NONE])
         ELSE [loc |-> l, ok |-> FALSE]

\* joblib.load followed by the field reads; a truncated file fails to
\* deserialize before any local is assigned
LoadCheckpoint(order, optional, tier, cp, l) ==
    IF cp.st = "partial" THEN [loc |-> l, ok |-> FALSE]
    ELSE LoadFields(1, order, optional, tier, cp, l)

\* `except Exception as e: print(...)`: the run goes on at `next`
OnLoadFailureRaises(next) == "error"
OnLoadFailure(next) == next

\* the `if not resumed: if not gwo_resumed:` nesting that follows the loads
AfterLoadIgnoresGwo(res, gres) ==
    IF ~res THEN "preprocess" ELSE "full_write_open"
AfterLoadIgnoresFull(res, gres) ==
    IF ~gres THEN "preprocess" ELSE "classify"
AfterLoad(res, gres) ==
    IF ~res THEN (IF ~gres THEN "preprocess" ELSE "classify")
    ELSE "full_write_open"

\* the dict literals dumped by main()
GwoCheckpoint(l) == Mapping(GwoFields, l, {})
FullCheckpoint(l, m) == Mapping(FullFields, l, m)

Finished == {"idle", "done", "error", "crashed"}

\* phases whose exception is not caught anywhere in main()
RaisingPhases ==
    {"preprocess", "egfr", "features", "baseline", "fit_final", "classify",
     "export", "summary", "report"}

\* what an invocation finds when it starts; afterResume tells that the
\* invocation before it ran to its end from a full resume
AtStart(afterResume) ==
    [fullFile |-> fullFile, gwoFile |-> gwoFile, artifacts |-> artifacts,
     fullDone |-> fullDone, gwoDone |-> gwoDone, afterResume |-> afterResume]

\* ------------------------------------------------- Grey Wolf Optimizer
\* pack size and iteration budget of the modelled optimizer instance
NWolves == 3
MaxIter == 2
\* optimize() calls followed on one user of the class
MaxCalls == 2

\* float('inf'): larger than every finite fitness
INF == 1000000

\* numpy's random generator as a linear congruential generator: the state
\* advances at every draw, a draw is the top bits of the new state and
\* stands for the number q / RngLevels of [0, 1)
RngModulus == 64
RngLevels == 4
Rand(x) == (37 * x + 11) % RngModulus
Level(x) == x \div (RngModulus \div RngLevels)

\* generator state after k draws
RECURSIVE RandN(_, _)
RandN(x, k) == IF k = 0 THEN x ELSE RandN(Rand(x), k - 1)

\* the k-th draw made from state x
Draw(x, k) == Level(RandN(x, k))

Abs(x) == IF x < 0 THEN -x ELSE x
Min(x, y) == IF x < y THEN x ELSE y
Max(x, y) == IF x < y THEN y ELSE x

\* np.clip(x, lo, hi) = minimum(maximum(x, lo), hi)
ClipNone(x, lo, hi) == x
Clip(x, lo, hi) == Min(Max(x, lo), hi)

\* search spaces handed to the constructor; the last has lb > ub
Spaces ==
    {[dim |-> 1, lb |-> <<0>>, ub |-> <<4>>],
     [dim |-> 1, lb |-> <<2>>, ub |-> <<6>>],
     [dim |-> 2, lb |-> <<1, 0>>, ub |-> <<3, 2>>],
     [dim |-> 1, lb |-> <<5>>, ub |-> <<1>>]}

ValidSpace(d, lo, hi) ==
    /\ d > 0
    /\ Len(lo) = d /\ Len(hi) = d
    /\ \A k \in 1..d : lo[k] <= hi[k]

\* objective functions handed to the constructor
\* "svr" is the adapter that optimize_svr_with_gwo builds around the SVR
Objectives == {"sphere", "allinf", "someinf", "const", "svr"}

RECURSIVE SumSq(_, _)
SumSq(p, k) ==
    IF k = 0 THEN 0 ELSE (p[k] - 2) * (p[k] - 2) + SumSq(p, k - 1)

\* self.objective_function(positions[i])
Fitness(f, p) ==
    CASE f = "sphere" -> SumSq(p, Len(p))
      [] f = "allinf" -> INF
      [] f = "someinf" -> IF p[1] % 2 = 1 THEN INF ELSE SumSq(p, Len(p))
      [] OTHER -> 7

\* how a call ends: with a returned value or with a raised exception
Returns(v) == [raised |-> FALSE, value |-> v]
Raises == [raised |-> TRUE, value |-> INF]

\* lines 174-177: SVR(...), fit, predict and the RMSE of the prediction;
\* the estimator fails on the candidates with an odd first coordinate
SvrRmse(p) ==
    IF p[1] % 2 = 1 THEN Raises ELSE Returns(SumSq(p, Len(p)))

\* the try/except of objective(params), lines 173-179
ObjectiveAdapterPropagates(r) == r
ObjectiveAdapter(r) == IF r.raised THEN Returns(INF) ELSE r

\* self.objective_function(positions[i]) as the call of line 85 ends
Call(f, p) ==
    IF f = "svr" THEN ObjectiveAdapter(SvrRmse(p)) ELSE Returns(Fitness(f, p))

\* np.zeros(self.dim)
Zeros(d) == [k \in 1..d |-> 0]

\* np.random.uniform(low=lb, high=ub, size=(n_wolves, dim)): one draw per
\* entry, row by row; the value is low + (high - low) * q / RngLevels
UniformPositions(x, d, lo, hi) ==
    [w \in 1..NWolves |->
       [k \in 1..d |->
          lo[k] + ((hi[k] - lo[k]) * Draw(x, (w - 1) * d + k))
                    \div RngLevels]]

\* the hierarchy update of lines 88-102 for one evaluated wolf
Hierarchy(ap, as, bp, bs, dp, ds) ==
    [alpha_pos |-> ap, alpha_score |-> as, beta_pos |-> bp,
     beta_score |-> bs, delta_pos |-> dp, delta_score |-> ds]

UpdateHierarchyAlways(h, fitness, pos) ==
    Hierarchy(pos, fitness, h.alpha_pos, h.alpha_score,
              h.beta_pos, h.beta_score)
UpdateHierarchyOnTie(h, fitness, pos) ==
    IF fitness <= h.alpha_score
    THEN Hierarchy(pos, fitness, h.alpha_pos, h.alpha_score,
                   h.beta_pos, h.beta_score)
    ELSE IF fitness <= h.beta_score
    THEN Hierarchy(h.alpha_pos, h.alpha_score, pos, fitness,
                   h.beta_pos, h.beta_score)
    ELSE IF fitness <= h.delta_score
    THEN Hierarchy(h.alpha_pos, h.alpha_score, h.beta_pos, h.beta_score,
                   pos, fitness)
    ELSE h
UpdateHierarchyNoDemote(h, fitness, pos) ==
    IF fitness < h.alpha_score
    THEN Hierarchy(pos, fitness, h.beta_pos, h.beta_score,
                   h.delta_pos, h.delta_score)
    ELSE IF fitness < h.beta_score
    THEN Hierarchy(h.alpha_pos, h.alpha_score, pos, fitness,
                   h.delta_pos, h.delta_score)
    ELSE IF fitness < h.delta_score
    THEN Hierarchy(h.alpha_pos, h.alpha_score, h.beta_pos, h.beta_score,
                   pos, fitness)
    ELSE h
UpdateHierarchyTieAlpha(h, fitness, pos) ==
    IF fitness <= h.alpha_score
    THEN Hierarchy(pos, fitness, h.alpha_pos, h.alpha_score,
                   h.beta_pos, h.beta_score)
    ELSE IF fitness < h.beta_score
    THEN Hierarchy(h.alpha_pos, h.alpha_score, pos, fitness,
                   h.beta_pos, h.beta_score)
    ELSE IF fitness < h.delta_score
    THEN Hierarchy(h.alpha_pos, h.alpha_score, h.beta_pos, h.beta_score,
                   pos, fitness)
    ELSE h
UpdateHierarchyDeltaFirst(h, fitness, pos) ==
    IF fitness < h.delta_score
    THEN Hierarchy(h.alpha_pos, h.alpha_score, h.beta_pos, h.beta_score,
                   pos, fitness)
    ELSE IF fitness < h.beta_score
    THEN Hierarchy(h.alpha_pos, h.alpha_score, pos, fitness,
                   h.beta_pos, h.beta_score)
    ELSE IF fitness < h.alpha_score
    THEN Hierarchy(pos, fitness, h.alpha_pos, h.alpha_score,
                   h.beta_pos, h.beta_score)
    ELSE h
UpdateHierarchyKeepsAlphaPos(h, fitness, pos) ==
    IF fitness < h.alpha_score
    THEN Hierarchy(h.alpha_pos, fitness, h.alpha_pos, h.alpha_score,
                   h.beta_pos, h.beta_score)
    ELSE IF fitness < h.beta_score
    THEN Hierarchy(h.alpha_pos, h.alpha_score, pos, fitness,
                   h.beta_pos, h.beta_score)
    ELSE IF fitness < h.delta_score
    THEN Hierarchy(h.alpha_pos, h.alpha_score, h.beta_pos, h.beta_score,
                   pos, fitness)
    ELSE h
UpdateHierarchy(h, fitness, pos) ==
    IF fitness < h.alpha_score
    THEN Hierarchy(pos, fitness, h.alpha_pos, h.alpha_score,
                   h.beta_pos, h.beta_score)
    ELSE IF fitness < h.beta_score
    THEN Hierarchy(h.alpha_pos, h.alpha_score, pos, fitness,
                   h.beta_pos, h.beta_score)
    ELSE IF fitness < h.delta_score
    THEN Hierarchy(h.alpha_pos, h.alpha_score, h.beta_pos, h.beta_score,
                   pos, fitness)
    ELSE h

\* line 105: a = 2.0 - t * (2.0 / self.max_iter), in units of 1 / max_iter
ACoefOffByOne(tt) == 2 * MaxIter - 2 * (tt + 1)
ACoef(tt) == 2 * MaxIter - 2 * tt

\* One encircling term X = leader - A * D of lines 111-129, in exact
\* arithmetic over the common denominator MaxIter * RngLevels^2, with
\*   a = 2 - t * (2 / max_iter)  = ACoef(t) / MaxIter
\*   A = 2 * a * r1 - a          = a * (2 * q1 - RngLevels) / RngLevels
\*   C = 2 * r2                  = 2 * q2 / RngLevels
\*   D = abs(C * leader - x)     = |2 * q2 * leader - RngLevels * x| / RngLevels
EncircleNum(av, q1, q2, leader, x) ==
    MaxIter * RngLevels * RngLevels * leader
      - av * (2 * q1 - RngLevels) * Abs(2 * q2 * leader - RngLevels * x)

\* lines 111-132: the mean of the three encircling terms, drawn from
\* generator state x; the quotient is rounded down to the position grid
MeanOfPulls(x, av, ap, bp, dp, cur) ==
    (EncircleNum(av, Draw(x, 1), Draw(x, 2), ap, cur)
       + EncircleNum(av, Draw(x, 3), Draw(x, 4), bp, cur)
       + EncircleNum(av, Draw(x, 5), Draw(x, 6), dp, cur))
      \div (3 * MaxIter * RngLevels * RngLevels)

\* no optimizer exists (the pipeline runs are followed on their own)
GwoIdle ==
    /\ gpc = "none"
    /\ objective = "sphere"
    /\ dim = 0
    /\ lb = << >>
    /\ ub = << >>
    /\ convergence_curve = << >>
    /\ positions = << >>
    /\ alpha_pos = << >> /\ alpha_score = INF
    /\ beta_pos = << >> /\ beta_score = INF
    /\ delta_pos = << >> /\ delta_score = INF
    /\ it = 0 /\ wi = 0 /\ dj = 0
    /\ rng = 0 /\ seed = 0
    /\ evals = 0 /\ calls = 0 /\ curveBase = 0
    /\ first = [seed |-> 0, pos |-> << >>, score |-> INF, curve |-> << >>]
    /\ a = UNB /\ minSeen = INF /\ argSeen = {}

\* no evaluation pass over a given list is followed
RankIdle == fitnesses = << >>

\* ------------------------------------------------ authentication API
\* bcrypt's limit on the bytes of a password (security.py, line 50)
BcryptLimit == 72

Emails == {"ann@example.com", "longpass@example.com"}
RoleNames == {"patient", "doctor"}

\* a password is len times the one-byte character ch ("z" * 80)
Passwords == [ch : {"z", "p"}, len : {9, BcryptLimit, 80}]

\* _normalize_for_bcrypt, lines 38-54: the UTF-8 bytes beyond the first 72
\* are cut off
NormalizeForBcrypt(password) ==
    [ch |-> password.ch,
     len |-> IF password.len > BcryptLimit THEN BcryptLimit
             ELSE password.len]

\* hash_password, lines 57-70: bcrypt of the normalized bytes (the salt
\* does not affect which passwords verify)
HashPassword(password) == [bcrypt |-> NormalizeForBcrypt(password)]

\* verify_password, lines 73-80
VerifyPassword(plain_password, hashed_password) ==
    hashed_password = [bcrypt |-> NormalizeForBcrypt(plain_password)]

\* db.query(models.User).filter(models.User.email == email).first()
UsersWithEmail(email) == {u \in users : u.email = email}

HttpResponse(status, detail) == [status |-> status, detail |-> detail]

NoRequest ==
    [op |-> "none", email |-> "", password |-> [ch |-> "", len |-> 0],
     role_name |-> ""]

\* the API has served no request and the tables are empty
AuthIdle ==
    /\ users = {}
    /\ roles = {}
    /\ request = NoRequest
    /\ response = HttpResponse(0, "")

\* ------------------------------------------------------------------- Init
InitRun ==
    /\ run = 0
    /\ pc = "idle"
    /\ loc = NoVals
    /\ locModels = {}
    /\ resumed = FALSE
    /\ gwo_resumed = FALSE
    /\ artifacts = NoArtifacts
    /\ trace = << >>
    /\ objCalls = 0
    /\ raised = "none"
    /\ returned = <<UNB, UNB>>
    /\ fullDone = FALSE
    /\ gwoDone = FALSE

\* a first start on an empty results directory
Init ==
    /\ InitRun
    /\ fullFile = Absent
    /\ gwoFile = Absent
    /\ start = AtStart(FALSE)
    /\ GwoIdle
    /\ RankIdle
    /\ AuthIdle

\* the values of a GWO checkpoint found on disk before the first start:
\* they come from another computation than those of the full checkpoint
\* found there, which are 0
OLDGWO == -3

\* files a results directory may hold before the first start: none, a
\* truncated file, a complete mapping, or a mapping lacking one field
EnvFiles(fields, v) ==
    {Absent, Partial}
      \cup {Mapping(fields \ m, [n \in VarNames |-> v], Models) :
              m \in {{}} \cup {{f} : f \in fields}}

InitEnv ==
    /\ InitRun
    /\ fullFile \in EnvFiles(FullFields, 0)
    /\ gwoFile \in EnvFiles(GwoFields, OLDGWO)
    /\ start = AtStart(FALSE)
    /\ GwoIdle
    /\ RankIdle
    /\ AuthIdle

\* ---------------------------------------------------------------- actions
\* main() is invoked: lines 50-69
StartRun ==
    /\ pc \in Finished
    /\ run < MaxRuns
    /\ run' = run + 1
    /\ pc' = "load_full"
    /\ loc' = [NoVals EXCEPT !["timestamp"] = run + 1]
    /\ locModels' = {}
    /\ resumed' = FALSE
    /\ gwo_resumed' = FALSE
    /\ trace' = << >>
    /\ objCalls' = 0
    /\ raised' = "none"
    /\ returned' = <<UNB, UNB>>
    /\ start' = AtStart(pc = "done" /\ resumed)
    /\ UNCHANGED <<fullFile, gwoFile, artifacts, fullDone, gwoDone, gvars, ovars>>

\* 1. Full Resume: lines 72-90
LoadFull ==
    /\ pc = "load_full"
    /\ trace' = Append(trace, "load_full")
    /\ IF fullFile.st = "absent"
       THEN /\ pc' = "load_gwo"
            /\ UNCHANGED <<loc, locModels, resumed>>
       ELSE LET r == LoadCheckpoint(FullOrder, FullOptional, "full",
                                    fullFile, loc)
            IN /\ loc' = r.loc
               /\ locModels' = IF r.loc["class_results"] # UNB
                               THEN fullFile.models ELSE locModels
               /\ resumed' = r.ok
               /\ pc' = IF r.ok THEN "load_gwo"
                        ELSE OnLoadFailure("load_gwo")
    /\ UNCHANGED <<run, gwo_resumed, fullFile, gwoFile, artifacts, objCalls,
                   raised, returned, fullDone, gwoDone, start, gvars, ovars>>

\* 2. GWO Resume: lines 93-106, then the branch of lines 108-109
LoadGwo ==
    /\ pc = "load_gwo"
    /\ trace' = Append(trace, "load_gwo")
    /\ IF resumed \/ gwoFile.st = "absent"
       THEN /\ pc' = AfterLoad(resumed, FALSE)
            /\ UNCHANGED <<loc, gwo_resumed>>
       ELSE LET r == LoadCheckpoint(GwoOrder, GwoOptional, "gwo",
                                    gwoFile, loc)
            IN /\ loc' = r.loc
               /\ gwo_resumed' = r.ok
               /\ pc' = IF r.ok THEN AfterLoad(resumed, TRUE)
                        ELSE OnLoadFailure(AfterLoad(resumed, FALSE))
    /\ UNCHANGED <<run, locModels, resumed, fullFile, gwoFile, artifacts,
                   objCalls, raised, returned, fullDone, gwoDone, start, gvars, ovars>>


\* a phase of the fresh path that only computes locals
Compute(from, to, names) ==
    /\ pc = from
    /\ pc' = to
    /\ trace' = Append(trace, from)
    /\ loc' = Assign(loc, names, run)
    /\ UNCHANGED <<run, locModels, resumed, gwo_resumed, fullFile, gwoFile,
                   artifacts, objCalls, raised, returned, fullDone, gwoDone,
                   start, gvars, ovars>>

\* PHASE 2: load_and_preprocess_data, line 116
Preprocess == Compute("preprocess", "egfr", {"data"})

\* PHASE 3: compute_all_egfr, line 124
ComputeTargets == Compute("egfr", "features", {"data"})

\* PHASE 4: the two prepare_features calls, lines 129-138
PrepareFeatures ==
    Compute("features", "baseline",
            {"X_train_reg", "X_test_reg", "y_train_egfr", "y_test_egfr",
             "scaler_reg", "X_train_cls", "X_test_cls", "y_train_stage",
             "y_test_stage", "scaler_cls", "feat_cls"})

\* PHASE 5: train_regression_models, lines 143-145
FitBaselineRegressors == Compute("baseline", "optimize", {"reg_results"})

\* PHASE 6: optimize_svr_with_gwo, lines 154-159; GreyWolfOptimizer.optimize
\* evaluates the objective once per wolf per iteration
OptimizeHyperparameters ==
    /\ pc = "optimize"
    /\ pc' = "fit_final"
    /\ trace' = Append(trace, "optimize")
    /\ loc' = Assign(loc, {"best_params", "best_score", "gwo_curve"}, run)
    /\ objCalls' = objCalls + n_wolves * max_iter
    /\ UNCHANGED <<run, locModels, resumed, gwo_resumed, fullFile, gwoFile,
                   artifacts, raised, returned, fullDone, gwoDone, start, gvars, ovars>>

\* the final fit followed directly by classification, no GWO checkpoint
FitFinalRegressorNoCheckpoint ==
    Compute("fit_final", "classify", {"svr_gwo", "reg_results"})

\* final GWO-SVR fit and reg_results['SVR-GWO'], lines 162-175
FitFinalRegressor ==
    Compute("fit_final", "gwo_write_open", {"svr_gwo", "reg_results"})

\* joblib.dump(gwo_cp, GWO_CHECKPOINT_PATH), line 186: the dict is built and
\* the target path is opened for writing, which truncates it
GwoWriteOpen ==
    /\ pc = "gwo_write_open"
    /\ trace' = Append(trace, "gwo_write_open")
    /\ IF Bound(GwoFields)
       THEN /\ pc' = "gwo_write"
            /\ gwoFile' = Partial
            /\ UNCHANGED raised
       ELSE /\ pc' = "error"
            /\ raised' = "NameError"
            /\ UNCHANGED gwoFile
    /\ UNCHANGED <<run, loc, locModels, resumed, gwo_resumed, fullFile,
                   artifacts, objCalls, returned, fullDone, gwoDone,
                   start, gvars, ovars>>

\* the pickle stream is written out and the file closed
GwoWriteDone ==
    /\ pc = "gwo_write"
    /\ pc' = "classify"
    /\ trace' = Append(trace, "gwo_write")
    /\ gwoFile' = GwoCheckpoint(loc)
    /\ gwoDone' = TRUE
    /\ UNCHANGED <<run, loc, locModels, resumed, gwo_resumed, fullFile,
                   artifacts, objCalls, raised, returned, fullDone,
                   start, gvars, ovars>>

\* models whose final training may be entered in `results`
TrainedSets == SUBSET Models

\* PHASE 7: train_classification_models, lines 192-194.  A model whose
\* final training raises is skipped (classification_models.py 106-111), so
\* the returned dict holds any subset of the models, possibly none.
FitClassifiers ==
    /\ pc = "classify"
    /\ trace' = Append(trace, "classify")
    /\ IF Bound({"X_train_cls", "y_train_stage", "X_test_cls", "y_test_stage"})
       THEN /\ pc' = "full_write_open"
            /\ \E trained \in TrainedSets :
                 /\ locModels' = trained
                 /\ loc' = Assign(loc, {"class_results"}, run)
            /\ UNCHANGED raised
       ELSE /\ pc' = "error"
            /\ raised' = "NameError"
            /\ UNCHANGED <<loc, locModels>>
    /\ UNCHANGED <<run, resumed, gwo_resumed, fullFile, gwoFile, artifacts,
                   objCalls, returned, fullDone, gwoDone, start, gvars, ovars>>

\* PHASE 8, joblib.dump(checkpoint, CHECKPOINT_PATH), line 212: reached on
\* every path, also after a full resume
FullWriteOpen ==
    /\ pc = "full_write_open"
    /\ trace' = Append(trace, "full_write_open")
    /\ IF Bound(FullFields)
       THEN /\ pc' = "full_write"
            /\ fullFile' = Partial
            /\ UNCHANGED raised
       ELSE /\ pc' = "error"
            /\ raised' = "NameError"
            /\ UNCHANGED fullFile
    /\ UNCHANGED <<run, loc, locModels, resumed, gwo_resumed, gwoFile,
                   artifacts, objCalls, returned, fullDone, gwoDone,
                   start, gvars, ovars>>

FullWriteDone ==
    /\ pc = "full_write"
    /\ pc' = "export"
    /\ trace' = Append(trace, "full_write")
    /\ fullFile' = FullCheckpoint(loc, locModels)
    /\ fullDone' = TRUE
    /\ UNCHANGED <<run, loc, locModels, resumed, gwo_resumed, gwoFile,
                   artifacts, objCalls, raised, returned, gwoDone,
                   start, gvars, ovars>>

\* model and scaler export and gwo_best_params.json, lines 214-226
ExportArtifacts ==
    /\ pc = "export"
    /\ trace' = Append(trace, "export")
    /\ IF Bound({"class_results", "svr_gwo", "scaler_reg", "scaler_cls",
                 "best_params", "best_score"})
       THEN /\ pc' = "figures"
            /\ artifacts' =
                 [xgb |-> IF "XGBoost" \in locModels
                          THEN loc["class_results"] ELSE artifacts.xgb,
                  svr |-> loc["svr_gwo"],
                  scaler_reg |-> loc["scaler_reg"],
                  scaler_cls |-> loc["scaler_cls"],
                  gwo_info |-> loc["best_params"]]
            /\ UNCHANGED raised
       ELSE /\ pc' = "error"
            /\ raised' = "NameError"
            /\ UNCHANGED artifacts
    /\ UNCHANGED <<run, loc, locModels, resumed, gwo_resumed, fullFile,
                   gwoFile, objCalls, returned, fullDone, gwoDone, start, gvars, ovars>>

\* PHASE 9: generate_all_plots inside try/except, lines 231-240
GenerateFigures ==
    /\ pc = "figures"
    /\ pc' = "summary"
    /\ trace' = Append(trace, "figures")
    /\ UNCHANGED <<run, loc, locModels, resumed, gwo_resumed, fullFile,
                   gwoFile, artifacts, objCalls, raised, returned, fullDone,
                   gwoDone, start, gvars, ovars>>

\* a handler that drops the saved checkpoint when plotting fails
FiguresFailInvalidates ==
    /\ pc = "figures"
    /\ pc' = "summary"
    /\ trace' = Append(trace, "figures")
    /\ raised' = "figures"
    /\ fullFile' = Absent
    /\ UNCHANGED <<run, loc, locModels, resumed, gwo_resumed,
                   gwoFile, artifacts, objCalls, returned, fullDone,
                   gwoDone, start, gvars, ovars>>

\* generate_all_plots raises; the handler of lines 238-240 prints and goes on
FiguresFail ==
    /\ pc = "figures"
    /\ pc' = "summary"
    /\ trace' = Append(trace, "figures")
    /\ raised' = "figures"
    /\ UNCHANGED <<run, loc, locModels, resumed, gwo_resumed, fullFile,
                   gwoFile, artifacts, objCalls, returned, fullDone,
                   gwoDone, start, gvars, ovars>>

\* results table and run_summary.json, lines 245-277
WriteSummary ==
    /\ pc = "summary"
    /\ pc' = "report"
    /\ trace' = Append(trace, "summary")
    /\ UNCHANGED <<run, loc, locModels, resumed, gwo_resumed, fullFile,
                   gwoFile, artifacts, objCalls, raised, returned, fullDone,
                   gwoDone, start, gvars, ovars>>

\* PHASE 10: generate_clinical_report, then return, lines 282-290
GenerateReport ==
    /\ pc = "report"
    /\ pc' = "done"
    /\ trace' = Append(trace, "report")
    /\ returned' = <<loc["reg_results"], loc["class_results"]>>
    /\ UNCHANGED <<run, loc, locModels, resumed, gwo_resumed, fullFile,
                   gwoFile, artifacts, objCalls, raised, fullDone, gwoDone,
                   start, gvars, ovars>>

\* a call outside any try block raises: the exception leaves main()
PhaseRaises ==
    /\ pc \in RaisingPhases
    /\ pc' = "error"
    /\ raised' = pc
    /\ trace' = Append(trace, pc)
    /\ UNCHANGED <<run, loc, locModels, resumed, gwo_resumed, fullFile,
                   gwoFile, artifacts, objCalls, returned, fullDone, gwoDone,
                   start, gvars, ovars>>

\* joblib.dump cannot open the target (lines 186, 212): nothing is written
WriteOpenFails ==
    /\ pc \in {"gwo_write_open", "full_write_open"}
    /\ pc' = "error"
    /\ raised' = pc
    /\ trace' = Append(trace, pc)
    /\ UNCHANGED <<run, loc, locModels, resumed, gwo_resumed, fullFile,
                   gwoFile, artifacts, objCalls, returned, fullDone, gwoDone,
                   start, gvars, ovars>>

\* a write error that is swallowed: the run goes on to the next phase
WriteFailsSwallowed ==
    /\ pc \in {"gwo_write", "full_write"}
    /\ pc' = IF pc = "gwo_write" THEN "classify" ELSE "export"
    /\ raised' = pc
    /\ UNCHANGED <<run, loc, locModels, resumed, gwo_resumed, fullFile,
                   gwoFile, artifacts, objCalls, returned, fullDone, gwoDone,
                   trace, start, gvars, ovars>>

\* an I/O error while the pickle stream is written: the truncated file stays
WriteFails ==
    /\ pc \in {"gwo_write", "full_write"}
    /\ pc' = "error"
    /\ raised' = pc
    /\ UNCHANGED <<run, loc, locModels, resumed, gwo_resumed, fullFile,
                   gwoFile, artifacts, objCalls, returned, fullDone, gwoDone,
                   trace, start, gvars, ovars>>

\* the process is killed between two steps of main()
Crash ==
    /\ pc \notin Finished
    /\ pc' = "crashed"
    /\ UNCHANGED <<run, loc, locModels, resumed, gwo_resumed, fullFile,
                   gwoFile, artifacts, objCalls, raised, returned, fullDone,
                   gwoDone, trace, start, gvars, ovars>>

Next ==
    \/ StartRun
    \/ LoadFull
    \/ LoadGwo
    \/ Preprocess
    \/ ComputeTargets
    \/ PrepareFeatures
    \/ FitBaselineRegressors
    \/ OptimizeHyperparameters
    \/ FitFinalRegressor
    \/ GwoWriteOpen
    \/ GwoWriteDone
    \/ FitClassifiers
    \/ FullWriteOpen
    \/ FullWriteDone
    \/ ExportArtifacts
    \/ GenerateFigures
    \/ FiguresFail
    \/ WriteSummary
    \/ GenerateReport
    \/ PhaseRaises
    \/ WriteOpenFails
    \/ WriteFails
    \/ Crash

\* runs started on an empty results directory
Spec == Init /\ [][Next]_vars

\* runs started on a results directory that already holds files
SpecEnv == InitEnv /\ [][Next]_vars

TypeOK ==
    /\ run \in 0..MaxRuns
    /\ resumed \in BOOLEAN
    /\ gwo_resumed \in BOOLEAN
    /\ locModels \subseteq Models
    /\ fullFile.st \in {"absent", "partial", "complete"}
    /\ gwoFile.st \in {"absent", "partial", "complete"}

\* ------------------------------------------- Grey Wolf Optimizer: steps
\* GreyWolfOptimizer(objective_function, dim, lb, ub, ...) has been
\* constructed (lines 44-53); the global generator is in any state
InitGwo ==
    /\ InitRun
    /\ fullFile = Absent
    /\ gwoFile = Absent
    /\ start = AtStart(FALSE)
    /\ gpc = "ready"
    /\ objective \in Objectives
    /\ \E sp \in Spaces : dim = sp.dim /\ lb = sp.lb /\ ub = sp.ub
    /\ convergence_curve = << >>
    /\ positions = << >>
    /\ alpha_pos = << >> /\ alpha_score = INF
    /\ beta_pos = << >> /\ beta_score = INF
    /\ delta_pos = << >> /\ delta_score = INF
    /\ it = 0 /\ wi = 0 /\ dj = 0
    /\ rng \in 0..(RngModulus - 1)
    /\ seed = rng
    /\ evals = 0 /\ calls = 0 /\ curveBase = 0
    /\ first = [seed |-> 0, pos |-> << >>, score |-> INF, curve |-> << >>]
    /\ a = UNB /\ minSeen = INF /\ argSeen = {}
    /\ RankIdle
    /\ AuthIdle

\* the caller constructs a new optimizer with the same arguments: __init__,
\* lines 44-53
GwoNew ==
    /\ gpc = "returned"
    /\ calls < MaxCalls
    /\ gpc' = "ready"
    /\ convergence_curve' = << >>
    /\ UNCHANGED <<objective, dim, lb, ub, positions, alpha_pos, alpha_score,
                   beta_pos, beta_score, delta_pos, delta_score, it, wi, dj,
                   rng, seed, evals, calls, curveBase, first, a, minSeen,
                   argSeen, mvars, ovars>>

\* the caller seeds the global generator again with the seed it used before
\* the first call (np.random.seed)
Reseed ==
    /\ gpc \in {"ready", "returned"}
    /\ calls >= 1 /\ calls < MaxCalls
    /\ rng # first.seed
    /\ rng' = first.seed
    /\ UNCHANGED <<gpc, objective, dim, lb, ub, convergence_curve, positions,
                   alpha_pos, alpha_score, beta_pos, beta_score, delta_pos,
                   delta_score, it, wi, dj, seed, evals, calls, curveBase,
                   first, a, minSeen, argSeen, mvars, ovars>>

\* optimize() is entered: lines 66-80
OptimizeBegin ==
    /\ gpc \in {"ready", "returned"}
    /\ calls < MaxCalls
    /\ gpc' = "eval"
    /\ calls' = calls + 1
    /\ seed' = rng
    /\ positions' = UniformPositions(rng, dim, lb, ub)
    /\ rng' = RandN(rng, NWolves * dim)
    /\ alpha_pos' = Zeros(dim) /\ alpha_score' = INF
    /\ beta_pos' = Zeros(dim) /\ beta_score' = INF
    /\ delta_pos' = Zeros(dim) /\ delta_score' = INF
    /\ it' = 0 /\ wi' = 1 /\ dj' = 1
    /\ evals' = 0
    /\ curveBase' = Len(convergence_curve)
    /\ a' = UNB /\ minSeen' = INF /\ argSeen' = {}
    /\ UNCHANGED <<objective, dim, lb, ub, convergence_curve, first, mvars, ovars>>

\* one pass of the evaluation loop, lines 84-102, followed after the last
\* wolf by the assignment of line 105; an exception of the objective
\* leaves optimize()
Evaluate ==
    /\ gpc = "eval"
    /\ evals' = evals + 1
    /\ LET r == Call(objective, positions[wi])
           fitness == r.value
           h == UpdateHierarchy(
                  Hierarchy(alpha_pos, alpha_score, beta_pos, beta_score,
                            delta_pos, delta_score),
                  fitness, positions[wi])
       IN IF r.raised
          THEN /\ gpc' = "raised"
               /\ UNCHANGED <<alpha_pos, alpha_score, beta_pos, beta_score,
                              delta_pos, delta_score, wi, a, minSeen,
                              argSeen>>
          ELSE /\ alpha_pos' = h.alpha_pos /\ alpha_score' = h.alpha_score
               /\ beta_pos' = h.beta_pos /\ beta_score' = h.beta_score
               /\ delta_pos' = h.delta_pos /\ delta_score' = h.delta_score
               /\ minSeen' = Min(minSeen, fitness)
               /\ argSeen' = IF fitness < minSeen THEN {positions[wi]}
                             ELSE IF fitness = minSeen
                             THEN argSeen \cup {positions[wi]}
                             ELSE argSeen
               /\ IF wi < NWolves
                  THEN /\ wi' = wi + 1
                       /\ UNCHANGED <<gpc, a>>
                  ELSE /\ wi' = 1
                       /\ a' = ACoef(it)
                       /\ gpc' = "update"
    /\ UNCHANGED <<objective, dim, lb, ub, convergence_curve, positions, it,
                   dj, rng, seed, calls, curveBase, first, mvars, ovars>>

\* one pass of the inner update loop, lines 109-135: positions[i, j] is
\* replaced by the clipped mean of the three encircling terms
UpdatePositionAliased ==
    /\ gpc = "update"
    /\ positions' =
         [positions EXCEPT ![wi][dj] =
            Clip(MeanOfPulls(rng, a, alpha_pos[dj], beta_pos[dj],
                             delta_pos[dj], positions[wi][dj]),
                 lb[dj], ub[dj])]
    /\ alpha_pos' = IF alpha_pos = positions[wi] THEN positions'[wi]
                    ELSE alpha_pos
    /\ beta_pos' = IF beta_pos = positions[wi] THEN positions'[wi]
                   ELSE beta_pos
    /\ delta_pos' = IF delta_pos = positions[wi] THEN positions'[wi]
                    ELSE delta_pos
    /\ rng' = RandN(rng, 6)
    /\ IF dj < dim
       THEN /\ dj' = dj + 1
            /\ UNCHANGED <<wi, gpc>>
       ELSE /\ dj' = 1
            /\ IF wi < NWolves
               THEN /\ wi' = wi + 1
                    /\ UNCHANGED gpc
               ELSE /\ wi' = 1
                    /\ gpc' = "append"
    /\ UNCHANGED <<objective, dim, lb, ub, convergence_curve, alpha_score,
                   beta_score, delta_score, it, seed, evals, calls,
                   curveBase, first, a, minSeen, argSeen, mvars, ovars>>
UpdatePosition ==
    /\ gpc = "update"
    /\ positions' =
         [positions EXCEPT ![wi][dj] =
            Clip(MeanOfPulls(rng, a, alpha_pos[dj], beta_pos[dj],
                             delta_pos[dj], positions[wi][dj]),
                 lb[dj], ub[dj])]
    /\ rng' = RandN(rng, 6)
    /\ IF dj < dim
       THEN /\ dj' = dj + 1
            /\ UNCHANGED <<wi, gpc>>
       ELSE /\ dj' = 1
            /\ IF wi < NWolves
               THEN /\ wi' = wi + 1
                    /\ UNCHANGED gpc
               ELSE /\ wi' = 1
                    /\ gpc' = "append"
    /\ UNCHANGED <<objective, dim, lb, ub, convergence_curve, alpha_pos,
                   alpha_score, beta_pos, beta_score, delta_pos, delta_score,
                   it, seed, evals, calls, curveBase, first, a, minSeen,
                   argSeen, mvars, ovars>>

\* end of one iteration, line 137, and the return of line 145 after the last
EndIteration ==
    /\ gpc = "append"
    /\ convergence_curve' = Append(convergence_curve, alpha_score)
    /\ IF it + 1 < MaxIter
       THEN /\ it' = it + 1
            /\ gpc' = "eval"
            /\ UNCHANGED first
       ELSE /\ gpc' = "returned"
            /\ UNCHANGED it
            /\ first' = IF calls = 1
                        THEN [seed |-> seed, pos |-> alpha_pos,
                              score |-> alpha_score,
                              curve |-> convergence_curve']
                        ELSE first
    /\ UNCHANGED <<objective, dim, lb, ub, positions, alpha_pos, alpha_score,
                   beta_pos, beta_score, delta_pos, delta_score, wi, dj, rng,
                   seed, evals, calls, curveBase, a, minSeen, argSeen, mvars,
                   ovars>>

NextGwo ==
    \/ GwoNew
    \/ Reseed
    \/ OptimizeBegin
    \/ Evaluate
    \/ UpdatePosition
    \/ EndIteration

\* optimize() calls of one user of GreyWolfOptimizer
SpecGwo == InitGwo /\ [][NextGwo]_vars

\* ------------------------------ one evaluation pass over a fitness list
\* wolves of the pass and the values the objective may return for them
RankLen == 5
FitnessValues == {1, 2, 5, 8, 9, INF}

\* the hierarchy is empty (lines 73-78) and wolf i (0-based) stands at the
\* position <<i + 1>>, where the objective returns fitnesses[i + 1]
InitRank ==
    /\ InitRun
    /\ fullFile = Absent
    /\ gwoFile = Absent
    /\ start = AtStart(FALSE)
    /\ AuthIdle
    /\ fitnesses \in [1..RankLen -> FitnessValues]
    /\ gpc = "eval"
    /\ objective = "listed"
    /\ dim = 1 /\ lb = <<1>> /\ ub = <<RankLen>>
    /\ convergence_curve = << >>
    /\ positions = [w \in 1..RankLen |-> <<w>>]
    /\ alpha_pos = Zeros(1) /\ alpha_score = INF
    /\ beta_pos = Zeros(1) /\ beta_score = INF
    /\ delta_pos = Zeros(1) /\ delta_score = INF
    /\ it = 0 /\ wi = 1 /\ dj = 1
    /\ rng = 0 /\ seed = 0
    /\ evals = 0 /\ calls = 1 /\ curveBase = 0
    /\ first = [seed |-> 0, pos |-> << >>, score |-> INF, curve |-> << >>]
    /\ a = UNB /\ minSeen = INF /\ argSeen = {}

\* lines 85-102 for wolf wi, the objective returning the listed value
RankStep ==
    /\ gpc = "eval"
    /\ LET h == UpdateHierarchy(
                  Hierarchy(alpha_pos, alpha_score, beta_pos, beta_score,
                            delta_pos, delta_score),
                  fitnesses[wi], positions[wi])
       IN /\ alpha_pos' = h.alpha_pos /\ alpha_score' = h.alpha_score
          /\ beta_pos' = h.beta_pos /\ beta_score' = h.beta_score
          /\ delta_pos' = h.delta_pos /\ delta_score' = h.delta_score
    /\ evals' = evals + 1
    /\ IF wi < Len(fitnesses)
       THEN /\ wi' = wi + 1
            /\ UNCHANGED gpc
       ELSE /\ gpc' = "ranked"
            /\ UNCHANGED wi
    /\ UNCHANGED <<objective, dim, lb, ub, convergence_curve, positions, it,
                   dj, rng, seed, calls, curveBase, first, a, minSeen,
                   argSeen, fitnesses, users, roles, request, response,
                   mvars>>

NextRank == RankStep

\* one evaluation pass from the empty hierarchy
SpecRank == InitRank /\ [][NextRank]_vars

\* ------------------------------------------ authentication API: handlers
InitAuth ==
    /\ InitRun
    /\ fullFile = Absent
    /\ gwoFile = Absent
    /\ start = AtStart(FALSE)
    /\ GwoIdle
    /\ RankIdle
    /\ AuthIdle

\* POST /api/auth/register: register (routes/auth.py, lines 11-29) with
\* register_user (auth_service.py, lines 7-27)
Register ==
    \E email \in Emails, password \in Passwords, role_name \in RoleNames :
      /\ request' = [op |-> "register", email |-> email,
                     password |-> password, role_name |-> role_name]
      /\ IF UsersWithEmail(email) # {}
         THEN /\ response' = HttpResponse(400, "Email already registered")
              /\ UNCHANGED <<users, roles>>
         ELSE /\ roles' = roles \cup {role_name}
              /\ users' = users \cup
                   {[email |-> email,
                     hashed_password |-> HashPassword(password),
                     role_name |-> role_name, is_active |-> TRUE]}
              /\ response' = HttpResponse(200, "")
      /\ UNCHANGED <<fitnesses, mvars, gvars>>

\* POST /api/auth/login: login (routes/auth.py, lines 31-45) with
\* authenticate_user (auth_service.py, lines 30-34)
Login ==
    \E email \in Emails, password \in Passwords :
      /\ request' = [op |-> "login", email |-> email,
                     password |-> password, role_name |-> ""]
      /\ LET found == {u \in UsersWithEmail(email) :
                         VerifyPassword(password, u.hashed_password)}
         IN response' =
              IF found = {}
              THEN HttpResponse(401, "Invalid email or password")
              ELSE IF \E u \in found : ~u.is_active
              THEN HttpResponse(403, "User account is inactive")
              ELSE HttpResponse(200, "")
      /\ UNCHANGED <<users, roles, fitnesses, mvars, gvars>>

NextAuth ==
    \/ Register
    \/ Login

\* requests served by the authentication API, one at a time
SpecAuth == InitAuth /\ [][NextAuth]_vars

\* ------------------------------------------------------------ properties
InTrace(ph) == \E i \in 1..Len(trace) : trace[i] = ph

\* a checkpoint file that the resume branch of its tier reads to the end
LoadableFull(cp) ==
    cp.st = "complete"
      /\ LoadCheckpoint(FullOrder, FullOptional, "full", cp, NoVals).ok
LoadableGwo(cp) ==
    cp.st = "complete"
      /\ LoadCheckpoint(GwoOrder, GwoOptional, "gwo", cp, NoVals).ok

StartedFull == run > 0 /\ LoadableFull(start.fullFile)
StartedGwoOnly ==
    run > 0 /\ ~LoadableFull(start.fullFile) /\ LoadableGwo(start.gwoFile)
StartedNone ==
    run > 0 /\ ~LoadableFull(start.fullFile) /\ ~LoadableGwo(start.gwoFile)

\* the invocation has finished both load steps and is still running
PastLoads == Len(trace) = 2 /\ pc \notin {"crashed", "error"}

RegressionPhases ==
    {"preprocess", "egfr", "features", "baseline", "optimize", "fit_final"}

\* C1: an invocation that finds a loadable GWO checkpoint and no loadable
\* full checkpoint runs none of preprocessing, eGFR computation, baseline
\* regressors, optimizer and final regressor fit, continues at classifier
\* fitting, and evaluates the objective zero times.
C1_GwoResumeSkipsOptimizer ==
    StartedGwoOnly =>
      /\ objCalls = 0
      /\ \A ph \in RegressionPhases : ~InTrace(ph)
      /\ PastLoads => pc = "classify"
      /\ Len(trace) >= 3 => trace[3] = "classify"

C1_Witness ==
    StartedGwoOnly /\ pc = "done" /\ InTrace("classify") /\ gwo_resumed

\* C2: an invocation that finds a loadable full checkpoint tries it first,
\* runs no preprocessing, regressor fit, optimizer call or classifier fit,
\* never reads the GWO checkpoint, and reaches figures and report with
\* locals that are exactly the checkpoint's contents.
C2_FullResumeSkipsTraining ==
    StartedFull =>
      /\ objCalls = 0
      /\ \A ph \in RegressionPhases \cup {"classify"} : ~InTrace(ph)
      /\ Len(trace) >= 1 => trace[1] = "load_full"
      /\ ~gwo_resumed
      /\ PastLoads => pc = "full_write_open"
      /\ pc \in {"figures", "summary", "report", "done"} =>
           /\ \A n \in FullFields :
                loc[n] = IF n \in start.fullFile.has
                         THEN start.fullFile.val[n] ELSE NONE
           /\ locModels = start.fullFile.models
           /\ loc["svr_gwo"] = start.fullFile.val["reg_results"]
           /\ \A n \in VarNames \ (FullFields \cup {"svr_gwo"}) :
                loc[n] = UNB

C2_Witness == StartedFull /\ pc = "done" /\ resumed

\* C3: a checkpoint that is missing, truncated or lacks a required field is
\* treated as absent: a failed full load goes on to the GWO tier, a failed
\* GWO load goes on to a fresh run from preprocessing, and a load failure
\* never ends the invocation with an error.
C3_LoadFailureFallsThrough ==
    /\ pc = "error" => raised \notin {"none", "NameError"}
    /\ (~StartedFull /\ Len(trace) = 1 /\ pc # "crashed") =>
         pc = "load_gwo" /\ ~resumed
    /\ (StartedNone /\ PastLoads) =>
         pc = "preprocess" /\ ~resumed /\ ~gwo_resumed
    /\ (StartedNone /\ Len(trace) >= 3) => trace[3] = "preprocess"

C3_Witness ==
    /\ start.fullFile.st = "complete" /\ ~LoadableFull(start.fullFile)
    /\ start.gwoFile.st \in {"partial", "complete"}
    /\ ~LoadableGwo(start.gwoFile)
    /\ pc = "done"

\* C4 (as claimed): once some invocation has finished writing the full
\* checkpoint no later invocation runs the optimizer or fits classifiers,
\* and once some invocation has finished writing the GWO checkpoint no
\* later invocation runs the optimizer.
C4_NoRedoAfterCheckpoint ==
    /\ start.fullDone => ~InTrace("optimize") /\ ~InTrace("classify")
    /\ start.gwoDone => ~InTrace("optimize")

\* C5 (as claimed): checkpoint writes are atomic; after a kill or an I/O
\* error in the middle of a dump no checkpoint path holds a partly written
\* file.
C5_AtomicCheckpointWrites ==
    pc \in {"crashed", "error"} =>
      fullFile.st # "partial" /\ gwoFile.st # "partial"

\* C6 (as claimed): the GWO checkpoint is written only after the optimizer
\* and the final regressor fit, the full checkpoint only after classifier
\* fitting produced results; an invocation whose classifier fitting trained
\* no model writes no full checkpoint.
C6_CheckpointOnlyAfterPhase ==
    /\ InTrace("gwo_write_open") =>
         InTrace("optimize") /\ InTrace("fit_final")
    /\ (InTrace("full_write_open") /\ ~resumed) =>
         InTrace("classify") /\ locModels # {}

\* C7 (as claimed): an invocation that resumes from a loadable checkpoint
\* never writes that checkpoint's file again.
C7_CheckpointReadOnly ==
    /\ StartedFull => fullFile = start.fullFile
    /\ StartedGwoOnly => gwoFile = start.gwoFile

\* C8 (as claimed): every field of the GWO checkpoint is also a field of
\* the full checkpoint written by main(), which adds class_results.
C8_CheckpointsAdditive ==
    (fullDone /\ fullFile.st = "complete") =>
      /\ GwoFields \subseteq fullFile.has
      /\ "class_results" \in fullFile.has

\* C9: when an invocation resumed from the full checkpoint has run to its
\* end, a second such invocation leaves the full checkpoint and the
\* exported artifacts exactly as the first left them, and calls neither the
\* optimizer nor any fit.
C9_ResumeIdempotent ==
    (pc = "done" /\ resumed /\ start.afterResume) =>
      /\ fullFile = start.fullFile
      /\ artifacts = start.artifacts
      /\ objCalls = 0
      /\ \A ph \in RegressionPhases \cup {"classify"} : ~InTrace(ph)

C9_Witness ==
    /\ pc = "done" /\ resumed /\ start.afterResume
    /\ InTrace("full_write") /\ InTrace("export")

\* C10 (as claimed): an exception raised by figure generation or by report
\* generation is caught inside main() and never ends the invocation with an
\* error.
C10_DownstreamFailureCaught ==
    raised \in {"figures", "report"} => pc # "error"

\* what the invocation exported, as a function of its locals
ExportedFrom(l, m, before) ==
    [xgb |-> IF "XGBoost" \in m THEN l["class_results"] ELSE before.xgb,
     svr |-> l["svr_gwo"], scaler_reg |-> l["scaler_reg"],
     scaler_cls |-> l["scaler_cls"], gwo_info |-> l["best_params"]]

\* C11: after figure generation or report generation has failed, the full
\* checkpoint, the GWO checkpoint and the exported model files are still
\* exactly what the invocation saved before the failure.
C11_DownstreamFailureKeepsArtifacts ==
    raised \in {"figures", "report"} =>
      /\ fullFile = FullCheckpoint(loc, locModels)
      /\ gwoFile = IF InTrace("gwo_write") THEN GwoCheckpoint(loc)
                   ELSE start.gwoFile
      /\ artifacts = ExportedFrom(loc, locModels, start.artifacts)

C11_Witness ==
    /\ raised = "figures" /\ pc = "done"
    /\ fullFile.st = "complete" /\ gwoFile.st = "complete"
    /\ artifacts.svr # UNB

\* the steps of main() that write a checkpoint file
WriteSteps ==
    {"gwo_write_open", "gwo_write", "full_write_open", "full_write"}

\* C12: an I/O error while the GWO or the full checkpoint is written ends
\* the invocation with the error; the failed write is the last phase it
\* executed and nothing is returned.
C12_WriteFailureFatal ==
    raised \in WriteSteps =>
      /\ pc = "error"
      /\ returned = <<UNB, UNB>>
      /\ trace[Len(trace)] =
           IF raised \in {"gwo_write_open", "gwo_write"}
           THEN "gwo_write_open" ELSE "full_write_open"
      /\ raised \in {"gwo_write_open", "gwo_write"} =>
           ~InTrace("classify") /\ fullFile = start.fullFile
      /\ ~InTrace("export") /\ artifacts = start.artifacts

C12_Witness ==
    /\ raised = "full_write" /\ pc = "error" /\ fullFile.st = "partial"
    /\ InTrace("classify")

\* the phases of an invocation that resumes from nothing, in program order
FreshOrder ==
    <<"load_full", "load_gwo", "preprocess", "egfr", "features", "baseline",
      "optimize", "fit_final", "gwo_write_open", "gwo_write", "classify",
      "full_write_open", "full_write", "export", "figures", "summary",
      "report">>

\* C13: when neither checkpoint is loadable, the phases executed so far are
\* always an initial segment of Preprocess, ComputeTargets, baseline
\* regressors, optimizer, final regressor, GWO-checkpoint write, classifiers,
\* full-checkpoint write, figures, report: in order, none skipped, none twice.
C13_FreshRunPhaseOrder ==
    StartedNone =>
      /\ Len(trace) <= Len(FreshOrder)
      /\ \A k \in 1..Len(trace) : trace[k] = FreshOrder[k]

C13_Witness == StartedNone /\ pc = "done" /\ trace = FreshOrder

\* -------------------------------------------- properties of the optimizer
InBounds(p) == \A k \in 1..dim : lb[k] <= p[k] /\ p[k] <= ub[k]

\* C14: for a valid search space every wolf position held by optimize(), at
\* initialization and after every position update of every iteration, lies
\* within [lb[j], ub[j]] in every dimension j.
C14_PositionsWithinBounds ==
    ValidSpace(dim, lb, ub) =>
      \A w \in DOMAIN positions : InBounds(positions[w])

\* a position update whose unclipped mean lies above the upper bound is due
C14_Witness ==
    /\ ValidSpace(dim, lb, ub)
    /\ gpc = "update"
    /\ MeanOfPulls(rng, a, alpha_pos[dj], beta_pos[dj], delta_pos[dj],
                   positions[wi][dj]) > ub[dj]

\* C15 (as claimed): for a valid search space and any objective, also one
\* that returns +infinity for every candidate, the best position returned
\* by optimize() lies within the bounds in every dimension.
C15_BestWithinBounds ==
    (ValidSpace(dim, lb, ub) /\ gpc = "returned") => InBounds(alpha_pos)

\* C16: the entries one optimize() call appends to the convergence curve
\* never increase from one iteration to the next.
C16_CurveNonIncreasing ==
    \A k \in (curveBase + 1)..(Len(convergence_curve) - 1) :
      convergence_curve[k + 1] <= convergence_curve[k]

C16_Witness ==
    /\ Len(convergence_curve) >= curveBase + 2
    /\ convergence_curve[curveBase + 2] < convergence_curve[curveBase + 1]
    /\ convergence_curve[curveBase + 2] < INF

\* C17 (as claimed): after every optimize() call the exposed
\* convergence_curve has exactly max_iter entries.
C17_CurveLength ==
    gpc = "returned" => Len(convergence_curve) = MaxIter

\* C18: with an objective that is +infinity everywhere, optimize() returns
\* after exactly max_iter iterations and n_wolves * max_iter evaluations
\* with best score +infinity; no wolf ever displaces alpha, beta or delta.
C18_AllInfiniteTerminates ==
    objective = "allinf" =>
      /\ alpha_score = INF /\ beta_score = INF /\ delta_score = INF
      /\ gpc \in {"eval", "update", "append", "returned"} =>
           /\ alpha_pos = Zeros(dim)
           /\ beta_pos = Zeros(dim)
           /\ delta_pos = Zeros(dim)
      /\ gpc = "returned" =>
           /\ evals = NWolves * MaxIter
           /\ Len(convergence_curve) = curveBase + MaxIter
           /\ \A k \in (curveBase + 1)..Len(convergence_curve) :
                convergence_curve[k] = INF

C18_Witness ==
    /\ objective = "allinf" /\ gpc = "returned"
    /\ \E w \in DOMAIN positions : positions[w] # Zeros(dim)

\* C19 (as claimed): a second optimize() run with the same objective, dim,
\* bounds, n_wolves and max_iter that consumes the same random draws as the
\* first returns the same best position and score and exposes the same
\* convergence curve.
C19_Deterministic ==
    (gpc = "returned" /\ calls = 2 /\ seed = first.seed) =>
      /\ alpha_pos = first.pos
      /\ alpha_score = first.score
      /\ convergence_curve = first.curve

\* C20 (as claimed): for an invalid search space no wolf position is ever
\* created and the objective is never evaluated.
C20_InvalidSpaceRejected ==
    ~ValidSpace(dim, lb, ub) =>
      gpc = "ready" /\ positions = << >> /\ evals = 0

\* C21: the objective built by optimize_svr_with_gwo never lets a failure
\* of the estimator escape: optimize() is never left by an exception of the
\* objective, and a failing candidate is reported as +infinity.
C21_AdapterNeverRaises ==
    objective = "svr" =>
      /\ gpc # "raised"
      /\ (gpc = "eval" /\ SvrRmse(positions[wi]).raised)
           => Call(objective, positions[wi]) = Returns(INF)
      /\ alpha_score < INF => ~SvrRmse(alpha_pos).raised

\* a candidate on which the estimator failed has been evaluated and the
\* evaluation loop goes on
C21_Witness ==
    /\ objective = "svr"
    /\ gpc = "eval"
    /\ wi > 1
    /\ SvrRmse(positions[wi - 1]).raised

\* ---------------------------------------- properties of the ranking pass
\* wolves evaluated so far in the pass over fitnesses
Ranked == 1..(IF gpc = "ranked" THEN Len(fitnesses) ELSE wi - 1)

\* the wolf that holds a slot (an empty slot has score +infinity)
Holder(pos, score) == IF score < INF THEN {pos[1]} ELSE {}

\* the slot holds the smallest fitness among the wolves of rest, with the
\* position of a wolf of rest that produced it
HoldsSmallest(pos, score, rest) ==
    /\ \A w \in rest : score <= fitnesses[w]
    /\ IF score < INF
       THEN /\ pos[1] \in rest
            /\ positions[pos[1]] = pos
            /\ fitnesses[pos[1]] = score
       ELSE pos = Zeros(dim)

\* C23: starting from the empty hierarchy, after the evaluation pass alpha,
\* beta and delta hold the smallest, second smallest and third smallest
\* fitness of the wolves evaluated, each with the position of the wolf that
\* produced it.
C23_RankingAfterPass ==
    objective = "listed" =>
      LET A == Holder(alpha_pos, alpha_score)
          B == Holder(beta_pos, beta_score)
      IN /\ HoldsSmallest(alpha_pos, alpha_score, Ranked)
         /\ HoldsSmallest(beta_pos, beta_score, Ranked \ A)
         /\ HoldsSmallest(delta_pos, delta_score, Ranked \ (A \cup B))

\* the list [5, 2, 8, 1, 9]: alpha is wolf 3, beta wolf 1, delta wolf 0
C23_Witness ==
    /\ objective = "listed"
    /\ Ranked = 1..5
    /\ SubSeq(fitnesses, 1, 5) = <<5, 2, 8, 1, 9>>
    /\ alpha_pos = positions[4] /\ alpha_score = 1
    /\ beta_pos = positions[2] /\ beta_score = 2
    /\ delta_pos = positions[1] /\ delta_score = 5

\* C24: a slot's holder changes only when the evaluated wolf's fitness is
\* strictly smaller than the slot's score (by taking the slot or by demoting
\* its holder); on a tie the earlier-found member stays.
C24_TiesKeepEarlier ==
    [][(gpc = "eval" /\ gpc' # "raised") =>
         LET fitness == Call(objective, positions[wi]).value
         IN /\ <<alpha_pos, alpha_score>>' # <<alpha_pos, alpha_score>>
                 => fitness < alpha_score
            /\ <<beta_pos, beta_score>>' # <<beta_pos, beta_score>>
                 => fitness < beta_score
            /\ <<delta_pos, delta_score>>' # <<delta_pos, delta_score>>
                 => fitness < delta_score]_vars

\* a wolf standing elsewhere ties with the alpha and is about to be evaluated
C24_Witness ==
    /\ gpc = "eval"
    /\ alpha_score < INF
    /\ Call(objective, positions[wi]).value = alpha_score
    /\ positions[wi] # alpha_pos

C26_HierarchyOrdered ==
    alpha_score <= beta_score /\ beta_score <= delta_score

C26_Witness ==
    /\ gpc \in {"eval", "update", "append", "returned"}
    /\ alpha_score < beta_score
    /\ beta_score < delta_score
    /\ delta_score < INF

\* C27: the best score is the minimum of all objective values returned so
\* far in the run, so the returned score is the minimum over all
\* n_wolves * max_iter evaluations; the curve entry of an iteration is the
\* minimum observed through that iteration; a finite best score comes
\* with a position at which that value was observed.
C27_BestIsMinimumObserved ==
    gpc \in {"eval", "update", "append", "returned"} =>
      /\ alpha_score = minSeen
      /\ alpha_score < INF => alpha_pos \in argSeen
      /\ gpc = "returned" => evals = NWolves * MaxIter
      /\ (/\ Len(convergence_curve) > curveBase
          /\ gpc = "returned" \/ (gpc = "eval" /\ wi = 1))
           => convergence_curve[Len(convergence_curve)] = minSeen

\* the minimum was found after the first iteration
C27_Witness ==
    /\ gpc = "returned"
    /\ alpha_score < INF
    /\ convergence_curve[curveBase + 1] > alpha_score

\* C28: the position update never changes a leader position; the leaders
\* change only in the evaluation loop (and when optimize() is entered);
\* the position updates of an iteration begin after every wolf of that
\* iteration has been evaluated.
C28_LeadersAreSnapshots ==
    /\ [][gpc = "update" =>
            UNCHANGED <<alpha_pos, beta_pos, delta_pos, alpha_score,
                        beta_score, delta_score>>]_vars
    /\ [][<<alpha_pos, beta_pos, delta_pos>>'
             # <<alpha_pos, beta_pos, delta_pos>>
            => gpc \in {"eval", "ready", "returned"}]_vars
    /\ [](gpc = "update" => evals = NWolves * (it + 1))

\* the wolf that became the alpha has moved on and the snapshot stayed
C28_Witness ==
    /\ gpc = "append"
    /\ alpha_score < INF
    /\ \A w \in 1..NWolves : positions[w] # alpha_pos

\* --------------------------------- properties of the authentication API
\* C22: a registration whose password is longer than 72 bytes is answered
\* with HTTP 400 and the detail "Password too long", and creates no user.
C22_LongPasswordRejected ==
    [][(request'.op = "register" /\ request'.password.len > BcryptLimit) =>
         /\ response'.status = 400
         /\ response'.detail = "Password too long"
         /\ users' = users]_vars

\* ------------------------------------- properties of the checkpoint pair
\* C29: whenever the full checkpoint and the GWO checkpoint are both
\* loadable, best_params, best_score and gwo_curve of the full checkpoint
\* are those of the GWO checkpoint, and the full checkpoint is not older
\* than the optimizer run recorded in the GWO checkpoint.
C29_CheckpointsAgree ==
    (LoadableFull(fullFile) /\ LoadableGwo(gwoFile)) =>
      /\ \A n \in {"best_params", "best_score", "gwo_curve"} :
           fullFile.val[n] = gwoFile.val[n]
      /\ fullFile.val["timestamp"] >= gwoFile.val["best_params"]
      /\ fullFile.val["class_results"] >= gwoFile.val["best_params"]

\* a full checkpoint completed by a later run than the optimizer run of
\* the GWO checkpoint it was resumed from
C29_Witness ==
    /\ LoadableFull(fullFile)
    /\ LoadableGwo(gwoFile)
    /\ fullFile.val["class_results"] > gwoFile.val["best_params"]

\* what a value may be in a run that did not resume from the full
\* checkpoint: computed by this run, None, or read from the GWO checkpoint
\* when that load succeeded
FromTier(n) ==
    {run, NONE} \cup (IF gwo_resumed THEN {start.gwoFile.val[n]} ELSE {})

ClassifierInputs ==
    {"X_train_cls", "y_train_stage", "X_test_cls", "y_test_stage"}

LatePhases ==
    {"full_write_open", "full_write", "export", "figures", "summary",
     "report", "done"}

\* C30: when the run goes on below a checkpoint whose load failed, the
\* values the later phases use, the full checkpoint the run writes and the
\* artifacts it exports come from the tier that succeeded or from this
\* run's own computation, never from the checkpoint whose load failed.
C30_NoLeakFromFailedLoad ==
    (run > 0 /\ ~resumed) =>
      /\ pc = "classify" =>
           \A n \in ClassifierInputs : loc[n] \in FromTier(n)
      /\ pc \in LatePhases =>
           \A n \in FullFields \cup {"svr_gwo"} : loc[n] \in FromTier(n)
      /\ InTrace("full_write") =>
           \A n \in FullFields : fullFile.val[n] \in FromTier(n)
      /\ artifacts # start.artifacts =>
           /\ artifacts.svr \in FromTier("svr_gwo")
           /\ artifacts.scaler_reg \in FromTier("scaler_reg")
           /\ artifacts.scaler_cls \in FromTier("scaler_cls")
           /\ artifacts.gwo_info \in FromTier("best_params")
           /\ artifacts.xgb \in {run, start.artifacts.xgb}

\* the full load failed after several fields were read, the GWO load
\* succeeded and the run has finished
C30_Witness ==
    /\ run > 0
    /\ pc = "done"
    /\ ~resumed
    /\ gwo_resumed
    /\ start.fullFile.st = "complete"
    /\ "best_params" \in start.fullFile.has
    /\ ~LoadableFull(start.fullFile)

====
